---- MODULE Spec2Model ----
(***************************************************************************)
(* Event-driven product/inventory synchronisation of the gateway:          *)
(* ServiceEventBus (a Node EventEmitter), InventorySyncHandler and the     *)
(* ProductsRoutes that publish on the bus.                                 *)
(***************************************************************************)
EXTENDS Integers, Sequences, FiniteSets, TLC

\* ------------------------------------------------------------------ bounds
MaxInstances  == 2  \* InventorySyncHandler objects constructed in one run
MaxForeign    == 2  \* SpecBus: listeners subscribed by other components
MaxPublishes  == 1  \* SpecBus: emit calls
MaxPrior      == 1  \* SpecLifecycle: listeners subscribed by other components
MaxLifeEvents == 1  \* SpecLifecycle: emit calls
MaxSyncEvents == 1  \* SpecSync: emit calls
MaxRequests   == 1  \* SpecRoutes: HTTP requests
MaxListeners  == 1  \* SpecRoutes: listeners subscribed by other components
MaxBystanders == 1  \* SpecTeardown: listeners subscribed by other components
MaxTeardownEvents == 1  \* SpecTeardown: emit calls
MaxAppCalls   == 3  \* SpecApp: calls of the App constructor
MaxAppListeners == 1  \* SpecApp: listeners subscribed by other components
MaxInFlight   == 2  \* SpecOrder: emit calls
MaxSubscribed == 3  \* SpecRegistry: listeners subscribed by other components
MaxEmits      == 2  \* SpecRegistry: emit calls
MaxAdded      == 3  \* SpecDispatch: listeners subscribed outside of emit
MaxDispatches == 2  \* SpecDispatch: emit calls

\* ------------------------------------------------------------ JS values
\* The JavaScript value undefined (a missing property reads as undefined).
Undefined == "undefined"

\* JavaScript truthiness of the values used here (strings and undefined):
\* undefined and the empty string are falsy.
Truthy(v) == v # Undefined /\ v # ""

\* a || b
OrElse(a, b) == IF Truthy(a) THEN a ELSE b

Kinds == {"product.created", "product.updated", "product.deleted"}

\* Rejection values of a failing collaborator call: an Error object, or a
\* value without properties (null / undefined), e.g. Promise.reject().
ErrVals == {"Error", "null"}

\* What the collaborator does when called: returns a promise that is still
\* pending, or throws synchronously.
Behaviours == {[sync |-> "pending", err |-> "Error"]} \cup
              {[sync |-> "throw", err |-> e] : e \in ErrVals}

PendingCall == [sync |-> "pending", err |-> "Error"]

Services == {"InventoryA", "InventoryB"}

\* ------------------------------------------------------------------ events
Names     == {Undefined, "", "Widget"}
Suppliers == {Undefined, "", "Acme"}
Prices    == {Undefined, "199.99"}
Descs     == {Undefined, "text"}
Ids       == {Undefined, "P1"}

ProductData == [name : Names, price : Prices, description : Descs,
                supplier : Suppliers]

\* An event without productData (the property reads as undefined, and reading
\* a property of it throws a TypeError), and an object without properties.
NoProductData == [k \in {} |-> Undefined]
NoData == [k \in {} |-> Undefined]

\* ProductCreatedEvent / ProductUpdatedEvent / ProductDeletedEvent; the
\* timestamp is never read and is left out. productData may be missing.
AllEvents(kind) ==
  IF kind = "product.deleted"
  THEN [productId : Ids, productData : {NoProductData}]
  ELSE [productId : Ids, productData : ProductData \cup {NoProductData}]

\* name, price, description, supplier of productData
PD(n, p, d, s) == [name |-> n, price |-> p, description |-> d, supplier |-> s]

\* The events published directly on the bus in the bus/lifecycle runs.
BusEvents(kind) ==
  IF kind = "product.created"
  THEN {[productId |-> "P1", productData |-> PD("Widget", Undefined, Undefined, "Acme")],
        [productId |-> "P1", productData |-> PD(Undefined, "199.99", Undefined, Undefined)]}
  ELSE IF kind = "product.updated"
  THEN {[productId |-> "P1", productData |-> PD(Undefined, Undefined, Undefined, "Acme")],
        [productId |-> "P1", productData |-> PD(Undefined, "199.99", Undefined, Undefined)]}
  ELSE {[productId |-> "P1", productData |-> NoProductData]}

\* The events published in the lifecycle runs: one valid event of each kind.
LifecycleEvents(kind) ==
  IF kind = "product.created"
  THEN {[productId |-> "P1", productData |-> PD("Widget", Undefined, Undefined, "Acme")]}
  ELSE IF kind = "product.updated"
  THEN {[productId |-> "P1", productData |-> PD(Undefined, Undefined, Undefined, "Acme")]}
  ELSE {[productId |-> "P1", productData |-> NoProductData]}

\* ------------------------------------------------------------------- state
VARIABLES
  listeners,  \* the bus registry: kind -> sequence of listeners
  instance,   \* InventorySyncHandler.instance (0 = null)
  created,    \* number of InventorySyncHandler objects constructed so far
  service,    \* instance id -> its inventoryService
  calls,      \* calls made on the Inventory collaborator, in call order
  tasks,      \* invocations of the async handlers (their promises)
  log,        \* console output that names a product
  pubs,       \* the emit calls made so far and what each returned
  resps,      \* HTTP responses sent by ProductsRoutes
  foreign,    \* number of listeners other components have subscribed so far
  detached,   \* history: destroy() has been called on the static instance
  busInstance,  \* ServiceEventBus.instance (0 = undefined), else the bus object
  busCreated,   \* number of ServiceEventBus objects constructed so far
  eventBus,     \* handler instance id -> the bus its constructor resolved
  routesBus,    \* the bus the ProductsRoutes object resolved (0 = no object yet)
  appInstance,  \* App.instance (0 = null)
  appCreated,   \* number of App objects constructed so far
  appLog        \* the calls of new App() so far and how each ended

busVars == <<busInstance, busCreated>>
appVars == <<appInstance, appCreated, appLog>>

vars == <<listeners, instance, created, service, calls, tasks, log, pubs, resps,
          foreign, detached, busVars, eventBus, routesBus, appVars>>

\* ------------------------------------------------ ServiceEventBus singleton
\* The static state of ServiceEventBus: the instance field and the objects
\* constructed so far.
BusState == [instance |-> busInstance, created |-> busCreated]

\* Variant: every call constructs a bus.
busGetInstanceFresh(b) ==
  [instance |-> b.created + 1, created |-> b.created + 1, ret |-> b.created + 1]

\* ServiceEventBus.getInstance(): constructs the bus when the static field is
\* unset, and returns the static field.
busGetInstance(b) ==
  IF b.instance = 0
  THEN [instance |-> b.created + 1, created |-> b.created + 1, ret |-> b.created + 1]
  ELSE [instance |-> b.instance, created |-> b.created, ret |-> b.instance]

\* A component resolves the bus before it uses it.
ResolveBus ==
  LET b == busGetInstance(BusState)
  IN busInstance' = b.instance /\ busCreated' = b.created

\* A listener: the bound handler of a sync handler instance (tag "sync", id =
\* instance id), or a listener of another component: one that returns
\* normally ("spy") or one that throws synchronously ("thrower").
SyncListener(i) == [tag |-> "sync", id |-> i]
ForeignTags == {"spy", "thrower"}

\* Listeners that change the registry while emit is dispatching to them: one
\* that subscribes a further listener to its own kind ("adder"), one that
\* removes the listeners of its own kind ("remover").
DispatchTags == {"spy", "adder", "remover"}

\* --------------------------------------------------- EventEmitter registry
\* Variant: the listener is put at the head of the list (prependListener).
onPrepended(ls, kind, l) == [ls EXCEPT ![kind] = <<l>> \o @]

on(ls, kind, l) == [ls EXCEPT ![kind] = Append(@, l)]

removeAllListeners(ls, kind) == [ls EXCEPT ![kind] = <<>>]

listenerCount(ls, kind) == Len(ls[kind])

\* Index of the last occurrence of l in s, 0 when there is none.
LastIndexOf(s, l) ==
  LET hits == {i \in 1..Len(s) : s[i] = l}
  IN IF hits = {} THEN 0 ELSE CHOOSE i \in hits : \A j \in hits : j <= i

RemoveAt(s, i) == SubSeq(s, 1, i - 1) \o SubSeq(s, i + 1, Len(s))

\* Variant: the index of a listener that is not registered is not checked
\* (splice(-1, 1) removes the last element).
removeListenerSpliced(ls, kind, l) ==
  LET i == LastIndexOf(ls[kind], l)
  IN IF i = 0 THEN [ls EXCEPT ![kind] = SubSeq(@, 1, Len(@) - 1)]
     ELSE [ls EXCEPT ![kind] = RemoveAt(@, i)]

\* EventEmitter.removeListener removes at most one registration of the
\* listener, the most recently added one.
removeListener(ls, kind, l) ==
  LET i == LastIndexOf(ls[kind], l)
  IN IF i = 0 THEN ls ELSE [ls EXCEPT ![kind] = RemoveAt(@, i)]

\* ------------------------------------------------- InventorySyncHandler
LogEntry(level, msg, id) == [level |-> level, msg |-> msg, id |-> id]

\* Variant: the failed event is handed to a queue and the handler waits for
\* an answer that never comes.
handleFailedEventEnqueues(lg, eventType, event, err) ==
  [log |-> Append(lg, LogEntry("error", "dead-letter-queue", event.productId)),
   st |-> "awaiting"]

\* handleFailedEvent reads error.message: with a rejection value that is null
\* or undefined this read throws a TypeError and the returned promise rejects.
handleFailedEvent(lg, eventType, event, err) ==
  IF err = "null"
  THEN [log |-> lg, st |-> "rejected"]
  ELSE [log |-> Append(lg, LogEntry("error", "dead-letter-queue", event.productId)),
        st |-> "fulfilled"]

\* Variant: the name is not validated.
InvalidCreatedNameUnchecked(event) ==
  \/ ~Truthy(event.productId)
  \/ event.productData = NoProductData

\* The event validation of handleProductCreated.
InvalidCreated(event) ==
  \/ ~Truthy(event.productId)
  \/ event.productData = NoProductData
  \/ ~Truthy(event.productData.name)

\* The record handleProductCreated passes to inventoryService.create.
inventoryItem(event) ==
  [articleNumber |-> event.productId,
   name          |-> event.productData.name,
   quantity      |-> 0,
   location      |-> "Main Warehouse",
   supplier      |-> OrElse(event.productData.supplier, "Default Supplier")]

\* Variant: the price is forwarded as well.
inventoryUpdateWithPrice(productData) ==
  [k \in {f \in {"name", "supplier", "price"} : Truthy(productData[f])} |-> productData[k]]

\* The partial update handleProductUpdated builds: the keys name and supplier
\* whose value in the event is truthy.
inventoryUpdate(productData) ==
  [k \in {f \in {"name", "supplier"} : Truthy(productData[f])} |-> productData[k]]

\* What each handler does once its collaborator call has an outcome: "ok"
\* (the promise resolved) or the value it threw or rejected with.
AfterCreate(lg, event, outcome) ==
  IF outcome = "ok"
  THEN [log |-> Append(lg, LogEntry("log", "created", event.productId)),
        st |-> "fulfilled"]
  ELSE handleFailedEvent(
         Append(lg, LogEntry("error", "Failed to create", event.productId)),
         "product.created", event, outcome)

AfterUpdate(lg, event, outcome) ==
  IF outcome = "ok"
  THEN [log |-> Append(lg, LogEntry("log", "updated", event.productId)),
        st |-> "fulfilled"]
  ELSE [log |-> Append(lg, LogEntry("error", "Failed to update", event.productId)),
        st |-> "fulfilled"]

AfterDelete(lg, event, outcome) ==
  IF outcome = "ok"
  THEN [log |-> Append(lg, LogEntry("log", "deleted", event.productId)),
        st |-> "fulfilled"]
  ELSE [log |-> Append(lg, LogEntry("error", "Failed to delete", event.productId)),
        st |-> "fulfilled"]

After(kind, lg, event, outcome) ==
  IF kind = "product.created" THEN AfterCreate(lg, event, outcome)
  ELSE IF kind = "product.updated" THEN AfterUpdate(lg, event, outcome)
  ELSE AfterDelete(lg, event, outcome)

Task(p, i, kind, c, st) == [pub |-> p, inst |-> i, kind |-> kind, call |-> c, st |-> st]

\* Variant: a synchronous throw of the collaborator is not caught and leaves
\* the handler.
CallCollaboratorUncaught(acc, i, svc, kind, event, p, beh, op, id, data) ==
  LET c == Len(acc.calls) + 1
      call == [op |-> op, id |-> id, data |-> data, inst |-> i, svc |-> svc,
               pub |-> p, st |-> IF beh.sync = "pending" THEN "pending" ELSE "threw"]
  IN IF beh.sync = "pending"
     THEN [acc EXCEPT !.calls = Append(@, call),
                      !.tasks = Append(@, Task(p, i, kind, c, "awaiting"))]
     ELSE [acc EXCEPT !.calls = Append(@, call), !.threw = TRUE]

\* Variant: the handler yields before it reaches its collaborator call, so
\* that no call has been made when emit returns.
CallCollaboratorDeferred(acc, i, svc, kind, event, p, beh, op, id, data) ==
  [acc EXCEPT !.tasks = Append(@, Task(p, i, kind, 0, "awaiting"))]

\* Variant: the dispatch waits until the promise of the call has resolved
\* and the handler has run to its end.
CallCollaboratorAwaited(acc, i, svc, kind, event, p, beh, op, id, data) ==
  LET c == Len(acc.calls) + 1
      call == [op |-> op, id |-> id, data |-> data, inst |-> i, svc |-> svc,
               pub |-> p, st |-> "resolved"]
      after == After(kind, acc.log, event, "ok")
  IN [acc EXCEPT !.calls = Append(@, call),
                 !.log = after.log,
                 !.tasks = Append(@, Task(p, i, kind, c, after.st))]

\* Variant: the catch block repeats a call that threw once.
CallCollaboratorRetries(acc, i, svc, kind, event, p, beh, op, id, data) ==
  LET c == Len(acc.calls) + 1
      call == [op |-> op, id |-> id, data |-> data, inst |-> i, svc |-> svc,
               pub |-> p, st |-> IF beh.sync = "pending" THEN "pending" ELSE "threw"]
      after == After(kind, acc.log, event, beh.err)
  IN IF beh.sync = "pending"
     THEN [acc EXCEPT !.calls = Append(@, call),
                      !.tasks = Append(@, Task(p, i, kind, c, "awaiting"))]
     ELSE [acc EXCEPT !.calls = Append(Append(@, call), call),
                      !.log = after.log,
                      !.tasks = Append(@, Task(p, i, kind, c + 1, after.st))]

\* A handler reaches its collaborator call: the call is recorded; when the
\* collaborator returns a pending promise the handler waits at its await,
\* when it throws the catch block runs at once.
CallCollaborator(acc, i, svc, kind, event, p, beh, op, id, data) ==
  LET c == Len(acc.calls) + 1
      call == [op |-> op, id |-> id, data |-> data, inst |-> i, svc |-> svc,
               pub |-> p, st |-> IF beh.sync = "pending" THEN "pending" ELSE "threw"]
      after == After(kind, acc.log, event, beh.err)
  IN IF beh.sync = "pending"
     THEN [acc EXCEPT !.calls = Append(@, call),
                      !.tasks = Append(@, Task(p, i, kind, c, "awaiting"))]
     ELSE [acc EXCEPT !.calls = Append(@, call),
                      !.log = after.log,
                      !.tasks = Append(@, Task(p, i, kind, c, after.st))]

\* The handler returns without a collaborator call.
NoCall(acc, i, kind, p, lg) ==
  [acc EXCEPT !.log = lg, !.tasks = Append(@, Task(p, i, kind, 0, "fulfilled"))]

handleProductCreated(acc, i, svc, event, p, beh) ==
  LET entered == [acc EXCEPT !.log = Append(@, LogEntry("log", "handler", event.productId))]
  IN IF InvalidCreated(event)
     THEN NoCall(entered, i, "product.created", p,
                 Append(entered.log, LogEntry("error", "Invalid event", event.productId)))
     ELSE CallCollaborator(entered, i, svc, "product.created", event, p, beh,
                           "create", Undefined, inventoryItem(event))

handleProductUpdated(acc, i, svc, event, p, beh) ==
  IF event.productData = NoProductData
  THEN \* reading productData.name throws a TypeError inside the try block
       NoCall(acc, i, "product.updated", p,
              Append(acc.log, LogEntry("error", "Failed to update", event.productId)))
  ELSE IF DOMAIN inventoryUpdate(event.productData) # {}
  THEN CallCollaborator(acc, i, svc, "product.updated", event, p, beh,
                        "update", event.productId, inventoryUpdate(event.productData))
  ELSE NoCall(acc, i, "product.updated", p, acc.log)

\* Variant: the handler returns without calling the collaborator.
handleProductDeletedSkips(acc, i, svc, event, p, beh) ==
  NoCall(acc, i, "product.deleted", p, acc.log)

handleProductDeleted(acc, i, svc, event, p, beh) ==
  CallCollaborator(acc, i, svc, "product.deleted", event, p, beh,
                   "delete", event.productId, NoData)

\* The bound handler of instance i that is registered for kind.
boundHandler(kind, acc, i, svc, event, p, beh) ==
  IF kind = "product.created" THEN handleProductCreated(acc, i, svc, event, p, beh)
  ELSE IF kind = "product.updated" THEN handleProductUpdated(acc, i, svc, event, p, beh)
  ELSE handleProductDeleted(acc, i, svc, event, p, beh)

\* Variant: cleanup clears the three kinds.
cleanupRemovesAll(ls, i) ==
  removeAllListeners(
    removeAllListeners(
      removeAllListeners(ls, "product.created"),
      "product.updated"),
    "product.deleted")

\* cleanup(): one removeListener per kind, with the instance's bound handler.
cleanup(ls, i) ==
  removeListener(
    removeListener(
      removeListener(ls, "product.created", SyncListener(i)),
      "product.updated", SyncListener(i)),
    "product.deleted", SyncListener(i))

\* Variant: the listeners subscribed before are not removed.
registerEventHandlersNoClear(ls, i) ==
  on(on(on(ls, "product.created", SyncListener(i)),
        "product.updated", SyncListener(i)),
     "product.deleted", SyncListener(i))

\* Variant: the created handler is subscribed twice.
registerEventHandlersTwice(ls, i) ==
  LET cleared == removeAllListeners(
                   removeAllListeners(
                     removeAllListeners(ls, "product.created"),
                     "product.updated"),
                   "product.deleted")
  IN on(on(on(on(cleared, "product.created", SyncListener(i)),
              "product.created", SyncListener(i)),
           "product.updated", SyncListener(i)),
        "product.deleted", SyncListener(i))

\* registerEventHandlers(): removeAllListeners for the three kinds, then one
\* on() per kind.
registerEventHandlers(ls, i) ==
  LET cleared == removeAllListeners(
                   removeAllListeners(
                     removeAllListeners(ls, "product.created"),
                     "product.updated"),
                   "product.deleted")
  IN on(on(on(cleared, "product.created", SyncListener(i)),
           "product.updated", SyncListener(i)),
        "product.deleted", SyncListener(i))

\* ---------------------------------------------------- ServiceEventBus.emit
\* EventEmitter.emit calls the listeners registered for the kind, in
\* registration order, on a copy of the list taken when emit starts. It has
\* no try/catch: a listener that throws ends the loop and the exception
\* leaves emit. An async handler never throws synchronously, it returns a
\* promise, which emit drops.
\* Variant: emit iterates over the live list of the registry.
dispatchListLive(snapshot, live) == live

\* The list emit iterates over: the copy, whatever the registry holds by now.
dispatchList(snapshot, live) == snapshot

RECURSIVE callListeners(_, _, _, _, _, _, _)
callListeners(snapshot, n, kind, event, p, beh, acc) ==
  LET list == dispatchList(snapshot, acc.listeners[kind])
  IN IF n > Len(list) THEN acc
     ELSE LET l == list[n]
              called == [acc EXCEPT !.invoked = Append(@, l)]
              returned ==
                IF l.tag = "thrower" THEN [called EXCEPT !.threw = TRUE]
                ELSE IF l.tag = "sync"
                THEN boundHandler(kind, called, l.id, service[l.id], event, p, beh)
                ELSE IF l.tag = "adder"
                THEN [called EXCEPT
                        !.listeners = on(@, kind, [tag |-> "spy", id |-> called.foreign + 1]),
                        !.foreign = @ + 1]
                ELSE IF l.tag = "remover"
                THEN [called EXCEPT !.listeners = removeAllListeners(@, kind)]
                ELSE called
          IN IF returned.threw
             THEN returned
             ELSE callListeners(snapshot, n + 1, kind, event, p, beh, returned)

\* The result of emit: the listeners it invoked, whether it threw, and the
\* registry, calls, tasks and log as the handlers left them.
emit(kind, event, beh) ==
  callListeners(listeners[kind], 1, kind, event, Len(pubs) + 1, beh,
                [invoked |-> <<>>, threw |-> FALSE,
                 listeners |-> listeners, foreign |-> foreign,
                 calls |-> calls, tasks |-> tasks, log |-> log])

\* Variant: the override drops the value of super.emit (undefined is falsy).
emitReturnsNothing(ls, kind) == FALSE

\* Variant: emit answers true whatever the registry holds.
emitReturnsTrue(ls, kind) == TRUE

\* What emit returns: true iff the kind had listeners when emit started.
emitReturns(ls, kind) == listenerCount(ls, kind) > 0

\* The record kept of one emit call.
Pub(kind, event, e, via) ==
  [kind |-> kind, event |-> event, snapshot |-> listeners[kind],
   invoked |-> e.invoked, threw |-> e.threw,
   ret |-> emitReturns(listeners, kind), via |-> via,
   inst |-> instance, detached |-> detached,
   bus |-> IF via = "route" THEN routesBus ELSE busGetInstance(BusState).ret]

\* ------------------------------------------------------------------ actions
Init ==
  /\ listeners = [k \in Kinds |-> <<>>]
  /\ instance = 0
  /\ created = 0
  /\ service = [i \in 1..MaxInstances |-> Undefined]
  /\ calls = <<>>
  /\ tasks = <<>>
  /\ log = <<>>
  /\ pubs = <<>>
  /\ resps = <<>>
  /\ foreign = 0
  /\ detached = FALSE
  /\ busInstance = 0
  /\ busCreated = 0
  /\ eventBus = [i \in 1..MaxInstances |-> 0]
  /\ routesBus = 0
  /\ appInstance = 0
  /\ appCreated = 0
  /\ appLog = <<>>

\* The body of the constructor when no instance exists, bus being what
\* ServiceEventBus.getInstance() returned to it.
ConstructHandler(svc, bus) ==
  /\ created < MaxInstances
  /\ created' = created + 1
  /\ service' = [service EXCEPT ![created + 1] = svc]
  /\ eventBus' = [eventBus EXCEPT ![created + 1] = bus]
  /\ listeners' = registerEventHandlers(listeners, created + 1)
  /\ instance' = created + 1
  /\ detached' = FALSE

Construct(svc) ==
  /\ ConstructHandler(svc, busGetInstance(BusState).ret)
  /\ ResolveBus

\* Variant: the constructor has no singleton guard and constructs a second
\* handler next to the existing one.
NewHandlerReplaces(svc) ==
  /\ Construct(svc)
  /\ UNCHANGED <<calls, tasks, log, pubs, resps, foreign, routesBus, appVars>>

\* new InventorySyncHandler(svc): throws when an instance exists.
NewHandler(svc) ==
  /\ IF instance # 0
     THEN UNCHANGED <<listeners, instance, created, service, detached, busVars, eventBus>>
     ELSE Construct(svc)
  /\ UNCHANGED <<calls, tasks, log, pubs, resps, foreign, routesBus, appVars>>

\* Variant: getInstance subscribes the handlers of the existing instance
\* again.
getInstanceReattaches(svc) ==
  /\ IF instance = 0
     THEN Construct(svc)
     ELSE /\ listeners' = registerEventHandlers(listeners, instance)
          /\ UNCHANGED <<instance, created, service, detached, busVars, eventBus>>
  /\ UNCHANGED <<calls, tasks, log, pubs, resps, foreign, routesBus, appVars>>

\* Variant: getInstance gives its argument to the existing instance.
getInstanceRebinds(svc) ==
  /\ IF instance = 0
     THEN Construct(svc)
     ELSE /\ service' = [service EXCEPT ![instance] = svc]
          /\ UNCHANGED <<listeners, instance, created, detached, busVars, eventBus>>
  /\ UNCHANGED <<calls, tasks, log, pubs, resps, foreign, routesBus, appVars>>

\* Variant: a handler that is constructed is handed the events that were
\* published while no handler was subscribed, and makes their calls.
getInstanceReplays(svc) ==
  /\ IF instance = 0
     THEN /\ Construct(svc)
          /\ LET missed == SelectSeq([p \in 1..Len(pubs) |-> p],
                              LAMBDA p : \A n \in 1..Len(pubs[p].snapshot) :
                                           pubs[p].snapshot[n].tag # "sync")
             IN calls' = calls \o
                  [n \in 1..Len(missed) |->
                     [op |-> "replay", id |-> pubs[missed[n]].event.productId,
                      data |-> NoData, inst |-> created + 1, svc |-> svc,
                      pub |-> missed[n], st |-> "resolved"]]
     ELSE UNCHANGED <<listeners, instance, created, service, detached, busVars, eventBus,
                      calls>>
  /\ UNCHANGED <<tasks, log, pubs, resps, foreign, routesBus, appVars>>

\* InventorySyncHandler.getInstance(svc)
getInstance(svc) ==
  /\ IF instance = 0
     THEN Construct(svc)
     ELSE UNCHANGED <<listeners, instance, created, service, detached, busVars, eventBus>>
  /\ UNCHANGED <<calls, tasks, log, pubs, resps, foreign, routesBus, appVars>>

\* InventorySyncHandler.resetInstance()
resetInstance ==
  /\ IF instance # 0
     THEN /\ listeners' = cleanup(listeners, instance)
          /\ instance' = 0
          /\ detached' = FALSE
     ELSE UNCHANGED <<listeners, instance, detached>>
  /\ UNCHANGED <<created, service, calls, tasks, log, pubs, resps, foreign,
                 busVars, eventBus, routesBus, appVars>>

\* destroy() on a handler object the caller still holds.
destroy(i) ==
  /\ i \in 1..created
  /\ listeners' = cleanup(listeners, i)
  /\ detached' = (detached \/ i = instance)
  /\ UNCHANGED <<instance, created, service, calls, tasks, log, pubs, resps, foreign,
                 busVars, eventBus, routesBus, appVars>>

\* eventBus.on(kind, listener) by another component or a test.
Subscribe(kind, tag) ==
  /\ foreign' = foreign + 1
  /\ listeners' = on(listeners, kind, [tag |-> tag, id |-> foreign + 1])
  /\ ResolveBus
  /\ UNCHANGED <<instance, created, service, calls, tasks, log, pubs, resps, detached,
                 eventBus, routesBus, appVars>>

\* eventBus.removeListener(kind, listener) by the component that subscribed
\* the listener; the listener may have been removed before.
Unsubscribe(kind, l) ==
  /\ listeners' = removeListener(listeners, kind, l)
  /\ ResolveBus
  /\ UNCHANGED <<instance, created, service, calls, tasks, log, pubs, resps,
                 foreign, detached, eventBus, routesBus, appVars>>

\* eventBus.removeAllListeners(kind) by another component or a test.
UnsubscribeAll(kind) ==
  /\ listeners' = removeAllListeners(listeners, kind)
  /\ ResolveBus
  /\ UNCHANGED <<instance, created, service, calls, tasks, log, pubs, resps,
                 foreign, detached, eventBus, routesBus, appVars>>

\* eventBus.emit(kind, event) called directly.
Publish(kind, event, beh) ==
  /\ LET e == emit(kind, event, beh)
     IN /\ calls' = e.calls
        /\ tasks' = e.tasks
        /\ log' = e.log
        /\ pubs' = Append(pubs, Pub(kind, event, e, "direct"))
        /\ listeners' = e.listeners
        /\ foreign' = e.foreign
  /\ ResolveBus
  /\ UNCHANGED <<instance, created, service, resps, detached, eventBus, routesBus, appVars>>

\* Variant: a call settles only after every call made before it.
SettleInOrder(c, outcome) ==
  /\ c \in 1..Len(calls)
  /\ calls[c].st = "pending"
  /\ \A d \in 1..(c - 1) : calls[d].st # "pending"
  /\ LET t == CHOOSE x \in 1..Len(tasks) : tasks[x].call = c
         after == After(tasks[t].kind, log, pubs[tasks[t].pub].event, outcome)
     IN /\ calls' = [calls EXCEPT ![c].st = IF outcome = "ok" THEN "resolved" ELSE "rejected"]
        /\ tasks' = [tasks EXCEPT ![t].st = after.st]
        /\ log' = after.log
  /\ UNCHANGED <<listeners, instance, created, service, pubs, resps, foreign, detached,
                 busVars, eventBus, routesBus, appVars>>

\* The promise of a pending collaborator call settles and the handler that
\* awaits it runs to its end.
Settle(c, outcome) ==
  /\ c \in 1..Len(calls)
  /\ calls[c].st = "pending"
  /\ LET t == CHOOSE x \in 1..Len(tasks) : tasks[x].call = c
         after == After(tasks[t].kind, log, pubs[tasks[t].pub].event, outcome)
     IN /\ calls' = [calls EXCEPT ![c].st = IF outcome = "ok" THEN "resolved" ELSE "rejected"]
        /\ tasks' = [tasks EXCEPT ![t].st = after.st]
        /\ log' = after.log
  /\ UNCHANGED <<listeners, instance, created, service, pubs, resps, foreign, detached,
                 busVars, eventBus, routesBus, appVars>>

\* ------------------------------------------------------------ ProductsRoutes
\* Request bodies of POST and PUT /products, and the :id of the URL.
Bodies == {PD("Widget", "199.99", Undefined, "Acme"),
           PD(Undefined, "199.99", Undefined, Undefined)}
RouteIds == {"P1"}

\* What the product service answers: its promise rejects, or resolves with
\* the new (updated) product, with null (update), with true or false (delete).
Product(id, body) ==
  [id |-> id, name |-> body.name, price |-> body.price, description |-> body.description]
NoProduct == [k \in {} |-> Undefined]
CreateAnswers(body) ==
  {[st |-> "reject", product |-> NoProduct]} \cup
  {[st |-> "resolve", product |-> Product(id, body)] : id \in {"P1", Undefined}}
UpdateAnswers(id, body) ==
  {[st |-> "reject", product |-> NoProduct], [st |-> "null", product |-> NoProduct],
   [st |-> "resolve", product |-> Product(id, body)]}
DeleteAnswers ==
  {[st |-> x, product |-> NoProduct] : x \in {"reject", "true", "false"}}

InternalError == [error |-> "Internal server error"]
NotFound == [error |-> "Product not found"]
InvalidId == [error |-> "Invalid product ID"]
Empty == [k \in {} |-> Undefined]

\* What a request carries: the :id of its URL (none for POST) and its body
\* (none for DELETE).
Req(id, body) == [id |-> id, body |-> body]

Resp(route, req, answer, status, body, p) ==
  [route |-> route, req |-> req, answer |-> answer, status |-> status, body |-> body,
   pub |-> p]

\* new ProductsRoutes(), as RouterConfig.register does once: the object keeps
\* the bus it resolves.
NewRoutes ==
  /\ routesBus = 0
  /\ routesBus' = busGetInstance(BusState).ret
  /\ ResolveBus
  /\ UNCHANGED <<listeners, instance, created, service, calls, tasks, log, pubs, resps,
                 foreign, detached, eventBus, appVars>>

\* The route sends a response without having emitted.
Respond(r) ==
  /\ resps' = Append(resps, r)
  /\ UNCHANGED <<calls, tasks, log, pubs, listeners, foreign>>

\* The route emits inside its try block and then sends the response: an
\* exception that leaves emit is caught by the route, which answers 500.
EmitAndRespond(route, req, answer, kind, event, beh, status, body) ==
  LET e == emit(kind, event, beh)
      p == Len(pubs) + 1
  IN /\ calls' = e.calls
     /\ tasks' = e.tasks
     /\ log' = e.log
     /\ pubs' = Append(pubs, Pub(kind, event, e, "route"))
     /\ listeners' = e.listeners
     /\ foreign' = e.foreign
     /\ resps' = Append(resps, IF e.threw
                                THEN Resp(route, req, answer, 500, InternalError, p)
                                ELSE Resp(route, req, answer, status, body, p))

\* What the product service answers to a read: its promise rejects, or
\* resolves with null (getById) or with what it found.
Stored == Product("P1", PD("Widget", "199.99", Undefined, Undefined))
GetAllAnswers ==
  {[st |-> "reject", product |-> NoProduct], [st |-> "resolve", product |-> Stored]}
GetByIdAnswers ==
  GetAllAnswers \cup {[st |-> "null", product |-> NoProduct]}

\* GET /products, from the answer of productsService.getAll on. The handler
\* has no try/catch: when the promise rejects it sends no response (status 0).
getAllProducts(answer) ==
  /\ IF answer.st = "reject"
     THEN Respond(Resp("GET", Req(Undefined, NoData), answer, 0, Empty, 0))
     ELSE Respond(Resp("GET", Req(Undefined, NoData), answer, 200, answer.product, 0))
  /\ routesBus # 0
  /\ UNCHANGED <<instance, created, service, detached, busVars, eventBus, routesBus, appVars>>

\* GET /products/:id, from the answer of productsService.getById on.
getProductById(id, answer) ==
  /\ IF ~Truthy(id)
     THEN Respond(Resp("GET", Req(id, NoData), answer, 400, InvalidId, 0))
     ELSE IF answer.st = "reject"
     THEN Respond(Resp("GET", Req(id, NoData), answer, 500, InternalError, 0))
     ELSE IF answer.st = "null"
     THEN Respond(Resp("GET", Req(id, NoData), answer, 404, NotFound, 0))
     ELSE Respond(Resp("GET", Req(id, NoData), answer, 200, answer.product, 0))
  /\ routesBus # 0
  /\ UNCHANGED <<instance, created, service, detached, busVars, eventBus, routesBus, appVars>>

\* The event createProduct emits.
createdEvent(newProduct, body) ==
  [productId |-> OrElse(newProduct.id, "PROD-now"),
   productData |-> PD(OrElse(newProduct.name, body.name),
                      OrElse(newProduct.price, body.price),
                      OrElse(newProduct.description, body.description),
                      body.supplier)]

\* POST /products, from the answer of productsService.create on.
createProduct(body, answer, beh) ==
  /\ IF answer.st = "reject"
     THEN Respond(Resp("POST", Req(Undefined, body), answer, 500, InternalError, 0))
     ELSE EmitAndRespond("POST", Req(Undefined, body), answer, "product.created",
                         createdEvent(answer.product, body), beh, 201, answer.product)
  /\ routesBus # 0
  /\ UNCHANGED <<instance, created, service, detached, busVars, eventBus, routesBus, appVars>>

\* Variant: the update route emits the event of the create route.
updateProductWrongKind(id, body, answer, beh) ==
  /\ IF ~Truthy(id)
     THEN Respond(Resp("PUT", Req(id, body), answer, 400, InvalidId, 0))
     ELSE IF answer.st = "reject"
     THEN Respond(Resp("PUT", Req(id, body), answer, 500, InternalError, 0))
     ELSE IF answer.st = "null"
     THEN Respond(Resp("PUT", Req(id, body), answer, 404, NotFound, 0))
     ELSE EmitAndRespond("PUT", Req(id, body), answer, "product.created",
                         createdEvent(answer.product, body), beh, 200, answer.product)
  /\ routesBus # 0
  /\ UNCHANGED <<instance, created, service, detached, busVars, eventBus, routesBus, appVars>>

\* PUT /products/:id, from the answer of productsService.update on.
updateProduct(id, body, answer, beh) ==
  /\ IF ~Truthy(id)
     THEN Respond(Resp("PUT", Req(id, body), answer, 400, InvalidId, 0))
     ELSE IF answer.st = "reject"
     THEN Respond(Resp("PUT", Req(id, body), answer, 500, InternalError, 0))
     ELSE IF answer.st = "null"
     THEN Respond(Resp("PUT", Req(id, body), answer, 404, NotFound, 0))
     ELSE EmitAndRespond("PUT", Req(id, body), answer, "product.updated",
                         [productId |-> id,
                          productData |-> PD(body.name, body.price, body.description,
                                             body.supplier)],
                         beh, 200, answer.product)
  /\ routesBus # 0
  /\ UNCHANGED <<instance, created, service, detached, busVars, eventBus, routesBus, appVars>>

\* Variant: the event is emitted whatever productsService.delete answered.
deleteProductEmitsFirst(id, answer, beh) ==
  /\ IF ~Truthy(id)
     THEN Respond(Resp("DELETE", Req(id, NoData), answer, 400, InvalidId, 0))
     ELSE IF answer.st = "reject"
     THEN Respond(Resp("DELETE", Req(id, NoData), answer, 500, InternalError, 0))
     ELSE EmitAndRespond("DELETE", Req(id, NoData), answer, "product.deleted",
                         [productId |-> id, productData |-> NoProductData],
                         beh, IF answer.st = "false" THEN 404 ELSE 204, Empty)
  /\ routesBus # 0
  /\ UNCHANGED <<instance, created, service, detached, busVars, eventBus, routesBus, appVars>>

\* DELETE /products/:id, from the answer of productsService.delete on.
deleteProduct(id, answer, beh) ==
  /\ IF ~Truthy(id)
     THEN Respond(Resp("DELETE", Req(id, NoData), answer, 400, InvalidId, 0))
     ELSE IF answer.st = "reject"
     THEN Respond(Resp("DELETE", Req(id, NoData), answer, 500, InternalError, 0))
     ELSE IF answer.st = "false"
     THEN Respond(Resp("DELETE", Req(id, NoData), answer, 404, Empty, 0))
     ELSE EmitAndRespond("DELETE", Req(id, NoData), answer, "product.deleted",
                         [productId |-> id, productData |-> NoProductData],
                         beh, 204, Empty)
  /\ routesBus # 0
  /\ UNCHANGED <<instance, created, service, detached, busVars, eventBus, routesBus, appVars>>

\* ---------------------------------------------------------------------- App
ListenerCounts(ls) == [k \in Kinds |-> listenerCount(ls, k)]

\* The body of the App constructor past its singleton guard:
\* initializeEventSystem resolves the bus and calls
\* InventorySyncHandler.getInstance(new InventoryService()), initializeRoutes
\* has RouterConfig.register construct the ProductsRoutes object once.
AppConstructor ==
  LET b1 == busGetInstance(BusState)
      b2 == IF instance = 0 THEN busGetInstance(b1) ELSE b1
      b3 == IF routesBus = 0 THEN busGetInstance(b2) ELSE b2
  IN /\ IF instance = 0
        THEN ConstructHandler("InventoryA", b2.ret)
        ELSE UNCHANGED <<listeners, instance, created, service, detached, eventBus>>
     /\ routesBus' = IF routesBus = 0 THEN b3.ret ELSE routesBus
     /\ busInstance' = b3.instance
     /\ busCreated' = b3.created
     /\ appInstance' = appCreated + 1
     /\ appCreated' = appCreated + 1
     /\ appLog' = Append(appLog, [threw |-> FALSE, counts |-> ListenerCounts(listeners')])

\* new App(): throws when App.instance is set.
NewApp ==
  /\ IF appInstance # 0
     THEN /\ appLog' = Append(appLog, [threw |-> TRUE, counts |-> ListenerCounts(listeners)])
          /\ UNCHANGED <<listeners, instance, created, service, detached, eventBus,
                         routesBus, busVars, appInstance, appCreated>>
     ELSE AppConstructor
  /\ UNCHANGED <<calls, tasks, log, pubs, resps, foreign>>

\* App.getInstance()
AppGetInstance ==
  /\ IF appInstance = 0
     THEN AppConstructor
     ELSE UNCHANGED <<listeners, instance, created, service, detached, eventBus,
                      routesBus, busVars, appVars>>
  /\ UNCHANGED <<calls, tasks, log, pubs, resps, foreign>>

\* The effect of InventorySyncHandler.resetInstance() on the handler.
ResetHandler ==
  IF instance # 0
  THEN /\ listeners' = cleanup(listeners, instance)
       /\ instance' = 0
       /\ detached' = FALSE
  ELSE UNCHANGED <<listeners, instance, detached>>

\* app.cleanup() on an App object the caller holds.
AppCleanup(a) ==
  /\ a \in 1..appCreated
  /\ ResetHandler
  /\ UNCHANGED <<created, service, calls, tasks, log, pubs, resps, foreign,
                 busVars, eventBus, routesBus, appVars>>

\* App.resetInstance()
AppResetInstance ==
  /\ IF appInstance # 0
     THEN ResetHandler /\ appInstance' = 0
     ELSE UNCHANGED <<listeners, instance, detached, appInstance>>
  /\ UNCHANGED <<created, service, calls, tasks, log, pubs, resps, foreign,
                 busVars, eventBus, routesBus, appCreated, appLog>>

\* The dispatcher: subscriptions of other components next to the sync
\* handler, and publishes of a few representative events.
NextBus ==
  \/ getInstance("InventoryA")
  \/ \E kind \in Kinds, tag \in ForeignTags :
       foreign < MaxForeign /\ Subscribe(kind, tag)
  \/ \E kind \in Kinds : \E event \in BusEvents(kind) :
       Len(pubs) < MaxPublishes /\ Publish(kind, event, PendingCall)
  \/ \E c \in 1..Len(calls), outcome \in {"ok", "Error"} : Settle(c, outcome)

SpecBus == Init /\ [][NextBus]_vars

\* The kinds whose listeners the registry runs subscribe and remove.
RegistryKinds == {"product.created", "product.updated"}

\* The registry of the bus: listeners of other components subscribed,
\* unsubscribed one by one (also when removed already) or all of a kind at
\* once, and publishes.
NextRegistry ==
  \/ \E kind \in RegistryKinds : foreign < MaxSubscribed /\ Subscribe(kind, "spy")
  \/ \E kind \in RegistryKinds, id \in 1..foreign : Unsubscribe(kind, [tag |-> "spy", id |-> id])
  \/ \E kind \in RegistryKinds : UnsubscribeAll(kind)
  \/ \E kind \in RegistryKinds : \E event \in LifecycleEvents(kind) :
       Len(pubs) < MaxEmits /\ Publish(kind, event, PendingCall)

SpecRegistry == Init /\ [][NextRegistry]_vars

\* Dispatch to listeners that subscribe or unsubscribe while emit is running.
NextDispatch ==
  \/ \E kind \in Kinds, tag \in DispatchTags :
       foreign < MaxAdded /\ Subscribe(kind, tag)
  \/ \E kind \in Kinds : \E event \in LifecycleEvents(kind) :
       Len(pubs) < MaxDispatches /\ Publish(kind, event, PendingCall)

SpecDispatch == Init /\ [][NextDispatch]_vars

\* The lifecycle of the sync handler: construction, teardown, listeners that
\* were subscribed before, and publishes.
NextLifecycle ==
  \/ \E svc \in Services : NewHandler(svc)
  \/ \E svc \in Services : getInstance(svc)
  \/ resetInstance
  \/ \E i \in 1..MaxInstances : destroy(i)
  \/ \E kind \in Kinds : foreign < MaxPrior /\ Subscribe(kind, "spy")
  \/ \E kind \in Kinds : \E event \in LifecycleEvents(kind) :
       Len(pubs) < MaxLifeEvents /\ Publish(kind, event, PendingCall)
  \/ \E c \in 1..Len(calls) : Settle(c, "ok")

SpecLifecycle == Init /\ [][NextLifecycle]_vars

\* Construction and teardown of the sync handler next to the listeners of
\* other components, and publishes in between.
NextTeardown ==
  \/ NewHandler("InventoryA")
  \/ getInstance("InventoryA")
  \/ resetInstance
  \/ \E i \in 1..MaxInstances : destroy(i)
  \/ \E kind \in Kinds : foreign < MaxBystanders /\ Subscribe(kind, "spy")
  \/ \E kind \in Kinds : \E event \in LifecycleEvents(kind) :
       Len(pubs) < MaxTeardownEvents /\ Publish(kind, event, PendingCall)

SpecTeardown == Init /\ [][NextTeardown]_vars

\* The App: constructions, cleanups and resets, listeners of other
\* components, and publishes.
NextApp ==
  \/ Len(appLog) < MaxAppCalls /\ NewApp
  \/ Len(appLog) < MaxAppCalls /\ AppGetInstance
  \/ \E a \in 1..MaxAppCalls : AppCleanup(a)
  \/ AppResetInstance
  \/ \E kind \in Kinds : foreign < MaxAppListeners /\ Subscribe(kind, "spy")

SpecApp == Init /\ [][NextApp]_vars

\* Events for one product published one after the other while the calls of
\* earlier events are in flight.
NextOrder ==
  \/ getInstance("InventoryA")
  \/ \E kind \in Kinds : \E event \in LifecycleEvents(kind) :
       Len(pubs) < MaxInFlight /\ Publish(kind, event, PendingCall)
  \/ \E c \in 1..Len(calls), outcome \in {"ok", "Error"} : Settle(c, outcome)

SpecOrder == Init /\ [][NextOrder]_vars

\* The translation of events into collaborator calls: every event shape,
\* every behaviour of the collaborator.
NextSync ==
  \/ getInstance("InventoryA")
  \/ \E kind \in Kinds : \E event \in AllEvents(kind), beh \in Behaviours :
       Len(pubs) < MaxSyncEvents /\ Publish(kind, event, beh)
  \/ \E c \in 1..Len(calls), outcome \in {"ok"} \cup ErrVals : Settle(c, outcome)

SpecSync == Init /\ [][NextSync]_vars

\* The same, with every collaborator call settling eventually: a pending
\* call is not left pending for ever.
SpecSyncFair ==
  /\ Init
  /\ [][NextSync]_vars
  /\ \A c \in 1..MaxSyncEvents :
       WF_vars(\E outcome \in {"ok"} \cup ErrVals : Settle(c, outcome))

\* The HTTP routes of the product side, publishing on the bus.
NextRoutes ==
  \/ getInstance("InventoryA")
  \/ NewRoutes
  \/ \E kind \in Kinds, tag \in ForeignTags :
       foreign < MaxListeners /\ Subscribe(kind, tag)
  \/ \E body \in Bodies : \E answer \in CreateAnswers(body), beh \in Behaviours :
       Len(resps) < MaxRequests /\ createProduct(body, answer, beh)
  \/ \E id \in RouteIds, body \in Bodies :
       \E answer \in UpdateAnswers(id, body), beh \in Behaviours :
         Len(resps) < MaxRequests /\ updateProduct(id, body, answer, beh)
  \/ \E id \in RouteIds, answer \in DeleteAnswers, beh \in Behaviours :
       Len(resps) < MaxRequests /\ deleteProduct(id, answer, beh)
  \/ \E answer \in GetAllAnswers : Len(resps) < MaxRequests /\ getAllProducts(answer)
  \/ \E id \in RouteIds, answer \in GetByIdAnswers :
       Len(resps) < MaxRequests /\ getProductById(id, answer)
  \/ \E c \in 1..Len(calls), outcome \in {"ok"} \cup ErrVals : Settle(c, outcome)

SpecRoutes == Init /\ [][NextRoutes]_vars

\* ------------------------------------------------------------- properties
Range(q) == {q[n] : n \in 1..Len(q)}

\* The collaborator calls made for publish p.
CallsOf(p) == {c \in 1..Len(calls) : calls[c].pub = p}

\* Publish p was dispatched to a handler of the sync handler.
SyncInvoked(p) == \E l \in Range(pubs[p].invoked) : l.tag = "sync"

\* A field of an event is present.
Present(v) == v # Undefined

\* C1: when several handlers are subscribed to a kind and one of them raises
\* synchronously during emit, every handler subscribed after it is still
\* invoked: each publish invokes every handler of its kind.
C1_LaterHandlersInvoked ==
  \A p \in 1..Len(pubs) : pubs[p].invoked = pubs[p].snapshot

\* C2: no error raised in a subscribed handler reaches the caller of publish:
\* POST /products answers 201 whenever the product service created the
\* product, and emit never throws.
C2_PostAnswers201 ==
  /\ \A p \in 1..Len(pubs) : ~pubs[p].threw
  /\ \A r \in 1..Len(resps) :
       (resps[r].route = "POST" /\ resps[r].answer.st = "resolve")
         => resps[r].status = 201

\* The response of a route as a function of the request and the answer of
\* the product service alone.
ExpectedStatus(route, answer) ==
  IF answer.st = "reject" THEN 500
  ELSE IF answer.st \in {"null", "false"} THEN 404
  ELSE IF route = "POST" THEN 201
  ELSE IF route = "PUT" THEN 200
  ELSE 204

ExpectedBody(route, answer) ==
  IF answer.st = "reject" THEN InternalError
  ELSE IF answer.st = "null" THEN NotFound
  ELSE IF route = "DELETE" THEN Empty
  ELSE answer.product

OnlySyncSubscribed(p) == \A l \in Range(pubs[p].snapshot) : l.tag = "sync"

\* The routes that change a product.
Mutations == {"POST", "PUT", "DELETE"}

\* C3: with only the sync handler subscribed, status and body of a POST, PUT
\* or DELETE /products response are determined by the request and the product
\* service, whatever the Inventory collaborator does, and the response is sent
\* in the step that publishes, never after the inventory call settles.
C3_ProductSideIndependent ==
  /\ \A r \in 1..Len(resps) :
       (/\ resps[r].route \in Mutations
        /\ resps[r].pub = 0 \/ OnlySyncSubscribed(resps[r].pub))
         => /\ resps[r].status = ExpectedStatus(resps[r].route, resps[r].answer)
            /\ resps[r].body = ExpectedBody(resps[r].route, resps[r].answer)
  /\ \A p \in 1..Len(pubs) :
       pubs[p].via = "route" => \E r \in 1..Len(resps) : resps[r].pub = p

\* A product was created and answered 201 while the inventory call that its
\* event started has not settled.
C3_Witness ==
  \E r \in 1..Len(resps) :
    /\ resps[r].pub # 0
    /\ resps[r].status = 201
    /\ SyncInvoked(resps[r].pub)
    /\ \E c \in CallsOf(resps[r].pub) : calls[c].st = "pending"

\* C4: after the sync handler has been built N >= 1 times through
\* getInstance, resetInstance and the constructor, one valid Created event
\* leads to exactly one collaborator call, a create with quantity 0.
C4_OneCreatePerEvent ==
  \A p \in 1..Len(pubs) :
    (/\ pubs[p].kind = "product.created"
     /\ ~InvalidCreated(pubs[p].event)
     /\ pubs[p].inst # 0
     /\ ~pubs[p].detached)
      => /\ Cardinality(CallsOf(p)) = 1
         /\ \A c \in CallsOf(p) : calls[c].op = "create" /\ calls[c].data.quantity = 0

\* A valid Created event was published to the second instance built and
\* caused one create call.
C4_Witness ==
  \E p \in 1..Len(pubs) :
    /\ pubs[p].kind = "product.created"
    /\ ~InvalidCreated(pubs[p].event)
    /\ pubs[p].inst >= 2
    /\ ~pubs[p].detached
    /\ \E c \in CallsOf(p) : calls[c].op = "create"

\* C5: immediately after every successful construction of the sync handler
\* the bus has exactly one listener for each of the three kinds, the new
\* instance's, whatever was subscribed before.
C5_OneListenerAfterConstruction ==
  [][created' # created =>
       \A k \in Kinds : listeners'[k] = <<SyncListener(instance')>>]_vars

\* A handler was constructed after another component had subscribed, and the
\* three kinds have the handler's listener only.
C5_Witness ==
  /\ instance # 0
  /\ foreign > 0
  /\ \A k \in Kinds : listeners[k] = <<SyncListener(instance)>>

\* C6: a valid Created event results in a create call whose record is exactly
\* {articleNum, name, quantity 0, location "Main Warehouse", supplier}, the
\* supplier being the event's or a fixed default when the event has none.
C6_CreateRecord ==
  \A p \in 1..Len(pubs) :
    (/\ pubs[p].kind = "product.created"
     /\ SyncInvoked(p)
     /\ ~InvalidCreated(pubs[p].event))
      => \E c \in CallsOf(p) :
           /\ calls[c].op = "create"
           /\ calls[c].data =
                [articleNum |-> pubs[p].event.productId,
                 name       |-> pubs[p].event.productData.name,
                 quantity   |-> 0,
                 location   |-> "Main Warehouse",
                 supplier   |-> IF Present(pubs[p].event.productData.supplier)
                                THEN pubs[p].event.productData.supplier
                                ELSE "Default Supplier"]

\* C7: an Updated event causes a collaborator call only if name or supplier
\* is present in it; an event with other fields only causes no call.
C7_UpdateOnlyForSyncFields ==
  \A c \in 1..Len(calls) :
    pubs[calls[c].pub].kind = "product.updated"
      => /\ pubs[calls[c].pub].event.productData # NoProductData
         /\ \/ Present(pubs[calls[c].pub].event.productData.name)
            \/ Present(pubs[calls[c].pub].event.productData.supplier)

\* The handler has handled a price-only Updated event without a call.
C7_Witness ==
  \E p \in 1..Len(pubs) :
    /\ pubs[p].kind = "product.updated"
    /\ SyncInvoked(p)
    /\ pubs[p].event.productData # NoProductData
    /\ Present(pubs[p].event.productData.price)
    /\ ~Present(pubs[p].event.productData.name)
    /\ ~Present(pubs[p].event.productData.supplier)
    /\ CallsOf(p) = {}
    /\ \E t \in 1..Len(tasks) : tasks[t].pub = p /\ tasks[t].st = "fulfilled"

\* C8: for an Updated event in which name and/or supplier is present, exactly
\* one update call is made, with the event's productId and a partial update
\* whose keys are exactly the present ones of name and supplier, with the
\* event's values.
C8_UpdateCall ==
  \A p \in 1..Len(pubs) :
    (/\ pubs[p].kind = "product.updated"
     /\ SyncInvoked(p)
     /\ pubs[p].event.productData # NoProductData
     /\ \/ Present(pubs[p].event.productData.name)
        \/ Present(pubs[p].event.productData.supplier))
      => /\ Cardinality(CallsOf(p)) = 1
         /\ \A c \in CallsOf(p) :
              /\ calls[c].op = "update"
              /\ calls[c].id = pubs[p].event.productId
              /\ calls[c].data =
                   [k \in {f \in {"name", "supplier"} :
                             Present(pubs[p].event.productData[f])}
                      |-> pubs[p].event.productData[k]]

\* C9: every Deleted event dispatched to the sync handler results in exactly
\* one collaborator call, a delete with the event's productId.
C9_OneDeletePerEvent ==
  \A p \in 1..Len(pubs) :
    (pubs[p].kind = "product.deleted" /\ SyncInvoked(p))
      => /\ Cardinality(CallsOf(p)) = 1
         /\ \A c \in CallsOf(p) :
              calls[c].op = "delete" /\ calls[c].id = pubs[p].event.productId

\* A Deleted event for P1 was dispatched and delete("P1") was called.
C9_Witness ==
  \E p \in 1..Len(pubs) :
    /\ pubs[p].kind = "product.deleted"
    /\ SyncInvoked(p)
    /\ \E c \in CallsOf(p) : calls[c].op = "delete" /\ calls[c].id = "P1"

\* C10: any failure of a collaborator call (a synchronous throw or a
\* rejection, with any value) is caught in the handler, logged with the
\* product id and swallowed: emit returns normally and the handler's promise
\* never rejects.
C10_FailuresSwallowed ==
  /\ \A p \in 1..Len(pubs) : SyncInvoked(p) => ~pubs[p].threw
  /\ \A t \in 1..Len(tasks) : tasks[t].st # "rejected"
  /\ \A c \in 1..Len(calls) :
       calls[c].st \in {"threw", "rejected"}
         => \E n \in 1..Len(log) :
              /\ log[n].level = "error"
              /\ log[n].id = pubs[calls[c].pub].event.productId

C12_InvalidCreatedNoCall ==
  \A p \in 1..Len(pubs) :
    LET event == pubs[p].event
    IN (/\ pubs[p].kind = "product.created"
        /\ SyncInvoked(p)
        /\ \/ ~Present(event.productId)
           \/ event.productData = NoProductData
           \/ ~Present(event.productData.name))
       => /\ CallsOf(p) = {}
          /\ ~pubs[p].threw
          /\ \E n \in 1..Len(log) :
               log[n] = LogEntry("error", "Invalid event", event.productId)
          /\ \A t \in 1..Len(tasks) : tasks[t].pub = p => tasks[t].st = "fulfilled"

\* A Created event with an id and without a name has been dispatched to the
\* sync handler.
C12_Witness ==
  \E p \in 1..Len(pubs) :
    /\ pubs[p].kind = "product.created"
    /\ SyncInvoked(p)
    /\ pubs[p].event.productId = "P1"
    /\ pubs[p].event.productData # NoProductData
    /\ pubs[p].event.productData.name = Undefined
    /\ CallsOf(p) = {}

\* An event lacks a field its kind requires: the productId, and for Created
\* the name.
Malformed(kind, event) ==
  \/ ~Present(event.productId)
  \/ /\ kind = "product.created"
     /\ \/ event.productData = NoProductData
        \/ ~Present(event.productData.name)

\* C13: for every kind, an event that lacks a field required for its kind
\* (a missing productId on Updated or Deleted included) leads to no
\* collaborator call and to no exception out of emit.
C13_MalformedNoCall ==
  \A p \in 1..Len(pubs) :
    (SyncInvoked(p) /\ Malformed(pubs[p].kind, pubs[p].event))
      => (CallsOf(p) = {} /\ ~pubs[p].threw)

\* C14: emit is fire-and-forget: when it returns every handler subscribed to
\* the kind has been started, and each collaborator call a handler made with
\* a pending promise is still pending, its handler waiting at the await. No
\* step that performs an emit settles a call of that emit.
C14_FireAndForget ==
  [][Len(pubs') = Len(pubs) + 1 =>
       LET p == Len(pubs')
       IN /\ ~pubs'[p].threw => pubs'[p].invoked = pubs'[p].snapshot
          /\ \A c \in 1..Len(calls') :
               calls'[c].pub = p =>
                 /\ calls'[c].st = "pending"
                 /\ \E t \in 1..Len(tasks') :
                      tasks'[t].call = c /\ tasks'[t].st = "awaiting"]_vars

\* emit has returned after starting the sync handler and a further listener,
\* and the inventory call of the sync handler is still pending.
C14_Witness ==
  \E p \in 1..Len(pubs) :
    /\ ~pubs[p].threw
    /\ SyncInvoked(p)
    /\ Len(pubs[p].invoked) >= 2
    /\ \E c \in CallsOf(p) : calls[c].st = "pending"

\* How often emit p invoked listener l.
TimesInvoked(p, l) ==
  Cardinality({n \in 1..Len(pubs[p].invoked) : pubs[p].invoked[n] = l})

\* C15: each emit of a kind invokes every handler subscribed to that kind
\* exactly once, and invokes no handler that is subscribed to other kinds
\* only.
C15_EachSubscribedOnce ==
  \A p \in 1..Len(pubs) :
    /\ \A l \in Range(pubs[p].snapshot) : TimesInvoked(p, l) = 1
    /\ \A l \in Range(pubs[p].invoked) : l \in Range(pubs[p].snapshot)

\* Listener a was subscribed before listener b: the ids of the listeners of
\* other components count their subscriptions, and the construction of the
\* sync handler removes every listener subscribed before it.
SubscribedBefore(a, b) ==
  \/ a.tag = "sync" /\ b.tag # "sync"
  \/ a.tag # "sync" /\ b.tag # "sync" /\ a.id < b.id

\* C16: when several handlers are subscribed to one kind, an emit invokes
\* them in the order in which they were subscribed.
C16_SubscriptionOrder ==
  \A p \in 1..Len(pubs) :
    \A m, n \in 1..Len(pubs[p].invoked) :
      m < n => SubscribedBefore(pubs[p].invoked[m], pubs[p].invoked[n])

\* An emit has invoked two listeners of other components.
C16_Witness ==
  \E p \in 1..Len(pubs) :
    \E m, n \in 1..Len(pubs[p].invoked) :
      /\ m < n
      /\ pubs[p].invoked[m].tag # "sync"
      /\ pubs[p].invoked[n].tag # "sync"

\* The boolean emit returns, read as a number (Number(true) is 1).
AsNumber(b) == IF b THEN 1 ELSE 0

\* C17 as stated: an emit that returns, returns the number of handlers it
\* invoked.
C17_ReturnsCount ==
  \A p \in 1..Len(pubs) :
    ~pubs[p].threw => AsNumber(pubs[p].ret) = Len(pubs[p].invoked)

\* C17, amended: an emit that returns, returns a boolean: true iff it invoked
\* at least one handler, false iff it invoked none.
C17_ReturnsWhetherInvoked ==
  \A p \in 1..Len(pubs) :
    ~pubs[p].threw => (pubs[p].ret <=> Len(pubs[p].invoked) > 0)

\* An emit has invoked two handlers and returned true.
C17_Witness ==
  \E p \in 1..Len(pubs) :
    ~pubs[p].threw /\ Len(pubs[p].invoked) = 2 /\ pubs[p].ret

\* C18: when no handler is subscribed to a kind, because none ever was or
\* because the listeners of the kind were removed, an emit for that kind
\* invokes no handler, does not throw and reports that none was invoked (it
\* returns false, zero as a number).
C18_NoSubscriber ==
  \A p \in 1..Len(pubs) :
    pubs[p].snapshot = <<>> =>
      /\ pubs[p].invoked = <<>>
      /\ ~pubs[p].threw
      /\ AsNumber(pubs[p].ret) = 0
      /\ CallsOf(p) = {}

\* A kind had two listeners at one emit and none at a later emit, after
\* their removal.
C18_Witness ==
  \E p, q \in 1..Len(pubs) :
    /\ p < q
    /\ pubs[p].kind = pubs[q].kind
    /\ Len(pubs[p].snapshot) = 2
    /\ pubs[q].snapshot = <<>>
    /\ pubs[q].invoked = <<>>
    /\ ~pubs[q].ret

\* s without the elements equal to l.
Without(s, l) == SelectSeq(s, LAMBDA x : x # l)

\* C19: removeListener(kind, l) removes the one subscription of l to kind
\* and leaves every other subscription, of the same kind and of the other
\* kinds, as it was; when l is not subscribed to kind (any more) nothing
\* changes.
C19_UnsubscribeRemovesOne ==
  [][\A kind \in RegistryKinds, id \in 1..foreign :
       LET l == [tag |-> "spy", id |-> id]
       IN Unsubscribe(kind, l) =>
            /\ listeners'[kind] = Without(listeners[kind], l)
            /\ Len(listeners[kind]) - Len(listeners'[kind]) <= 1
            /\ \A k \in Kinds \ {kind} : listeners'[k] = listeners[k]
            /\ l \notin Range(listeners[kind]) => listeners' = listeners]_vars

\* Of two listeners an emit found subscribed to its kind, the first has been
\* removed and the second is still subscribed, as is a listener of another
\* kind.
C19_Witness ==
  \E p \in 1..Len(pubs) :
    /\ Len(pubs[p].snapshot) = 2
    /\ listeners[pubs[p].kind] = <<pubs[p].snapshot[2]>>
    /\ \E k \in Kinds \ {pubs[p].kind} : Len(listeners[k]) = 1

\* C20: the handlers one emit invokes are the subscriptions of the kind at
\* the moment emit starts, in their order: a handler that subscribes or
\* unsubscribes handlers of the kind while it runs changes neither which
\* handlers this emit invokes nor their order. The registry after the emit
\* holds the change, and the next emit starts from it.
C20_SnapshotDispatch ==
  [][Len(pubs') = Len(pubs) + 1 =>
       LET p == Len(pubs')
           kind == pubs'[p].kind
           started == listeners[kind]
           adders == {n \in 1..Len(started) : started[n].tag = "adder"}
           removers == {n \in 1..Len(started) : started[n].tag = "remover"}
       IN /\ ~pubs'[p].threw => pubs'[p].invoked = started
          /\ removers = {} =>
               Len(listeners'[kind]) = Len(started) + Cardinality(adders)
          /\ (removers # {} /\ \A a \in adders : \E r \in removers : a < r) =>
               listeners'[kind] = <<>>]_vars

\* An emit has invoked a listener that subscribes a further listener, and
\* not that further listener; a later emit of the kind has invoked both.
C20_Witness ==
  \E p, q \in 1..Len(pubs) :
    /\ p < q
    /\ pubs[p].kind = pubs[q].kind
    /\ Len(pubs[p].invoked) = 1
    /\ pubs[p].invoked[1].tag = "adder"
    /\ Len(pubs[q].invoked) = 2
    /\ pubs[q].invoked[1] = pubs[p].invoked[1]
    /\ pubs[q].invoked[2].tag = "spy"

\* What a teardown of handler instance i does to the registry: each kind
\* loses the bound handler of i, at most one listener, and nothing else.
TeardownEffect(i) ==
  /\ \A k \in Kinds :
       /\ listeners'[k] = Without(listeners[k], SyncListener(i))
       /\ Len(listeners[k]) - Len(listeners'[k]) <= 1
  /\ (\A k \in Kinds : SyncListener(i) \notin Range(listeners[k]))
       => listeners' = listeners
  /\ (\A k \in Kinds : listeners[k] = <<SyncListener(i)>>)
       => \A k \in Kinds : listenerCount(listeners', k) = 0

Attached(ls, i) == \E k \in Kinds : SyncListener(i) \in Range(ls[k])

\* C22: detached is terminal for a handler instance: an instance that has
\* been constructed and has no listener any more (destroy() or
\* resetInstance() removed them) gets none again, whatever is called, and no
\* emit made from then on invokes it.
C22_DetachedTerminal ==
  [][\A i \in 1..created :
       ~Attached(listeners, i) =>
         /\ ~Attached(listeners', i)
         /\ \A p \in (Len(pubs) + 1)..Len(pubs') :
              SyncListener(i) \notin Range(pubs'[p].invoked)]_vars

\* An emit was made after destroy() had detached the static instance, and
\* did not invoke it.
C22_Witness ==
  \E p \in 1..Len(pubs) :
    /\ pubs[p].inst # 0
    /\ pubs[p].detached
    /\ SyncListener(pubs[p].inst) \notin Range(pubs[p].invoked)

\* The registry holds exactly the handler of instance i for each kind.
OneListenerPerKind(ls, i) == \A k \in Kinds : ls[k] = <<SyncListener(i)>>

\* C23: after destroy() has detached the handler, a new handler can be
\* constructed: new InventorySyncHandler(svc) succeeds and the new instance
\* is subscribed, while other components have no listener, with one listener
\* per kind.
C23_ResumeByConstruction ==
  (/\ instance # 0
   /\ detached
   /\ created < MaxInstances
   /\ \A k \in Kinds : listeners[k] = <<>>)
    => ENABLED (/\ NewHandler("InventoryA")
                /\ instance' # instance
                /\ OneListenerPerKind(listeners', instance'))

\* C24: ServiceEventBus.getInstance() returns the same bus on every call: at
\* most one bus object is ever constructed, and the bus of every emit, of
\* every sync handler and of the ProductsRoutes object is that one.
C24_OneBus ==
  /\ busCreated <= 1
  /\ \A p \in 1..Len(pubs) : pubs[p].bus = busInstance
  /\ \A i \in 1..created : eventBus[i] = busInstance
  /\ routesBus # 0 => routesBus = busInstance

\* A route has emitted on the bus on which the sync handler and a listener
\* of another component are subscribed.
C24_Witness ==
  \E p \in 1..Len(pubs) :
    /\ pubs[p].via = "route"
    /\ SyncInvoked(p)
    /\ Len(pubs[p].invoked) = 2
    /\ pubs[p].bus = eventBus[pubs[p].inst]
    /\ busCreated = 1

\* C25: every new App() in the process, also one after an earlier App was
\* constructed and its cleanup() was called, returns without throwing and
\* leaves exactly one listener for each of the three kinds.
C25_AppConstructibleAgain ==
  \A n \in 1..Len(appLog) :
    /\ ~appLog[n].threw
    /\ \A k \in Kinds : appLog[n].counts[k] = 1

\* The product service did not carry out the operation: its promise
\* rejected, update resolved with null, or delete resolved with false.
Failed(answer) == answer.st \in {"reject", "null", "false"}

\* C26: a route emits only after the product-side operation succeeded: a
\* request whose product service call rejects is answered 500, one whose
\* update finds no product or whose delete answers false is answered 404,
\* and neither emits; every event a route emitted belongs to a request whose
\* operation succeeded.
C26_EmitOnlyOnSuccess ==
  /\ \A r \in 1..Len(resps) :
       (resps[r].route \in Mutations /\ Failed(resps[r].answer)) =>
         /\ resps[r].pub = 0
         /\ resps[r].status = IF resps[r].answer.st = "reject" THEN 500 ELSE 404
  /\ \A p \in 1..Len(pubs) :
       pubs[p].via = "route" =>
         \E r \in 1..Len(resps) : resps[r].pub = p /\ ~Failed(resps[r].answer)

\* A DELETE for which the product service answered false has been answered
\* 404, and nothing was emitted.
C26_Witness ==
  \E r \in 1..Len(resps) :
    /\ resps[r].route = "DELETE"
    /\ resps[r].answer.st = "false"
    /\ resps[r].status = 404
    /\ pubs = <<>>

\* C27: POST /products with a body that has no name is answered 400, and no
\* event is emitted for it.
C27_PostWithoutNameRejected ==
  \A r \in 1..Len(resps) :
    (resps[r].route = "POST" /\ ~Present(resps[r].req.body.name))
      => (resps[r].status = 400 /\ resps[r].pub = 0)

\* The kind of event a mutation route emits, and the id of the product the
\* request of response r changed: the id of the product the service created
\* (POST), the :id of the URL (PUT, DELETE).
KindOf(route) ==
  IF route = "POST" THEN "product.created"
  ELSE IF route = "PUT" THEN "product.updated"
  ELSE "product.deleted"

ProductIdOf(r) ==
  IF resps[r].route = "POST" THEN resps[r].answer.product.id ELSE resps[r].req.id

C29_AnyPendingCallCanSettle ==
  \A c \in 1..Len(calls) :
    calls[c].st = "pending" => ENABLED Settle(c, "ok")

\* Of two events published one after the other for the same product, the
\* call of the second has resolved while the call of the first is pending.
C29_Witness ==
  \E c1, c2 \in 1..Len(calls) :
    /\ calls[c1].pub < calls[c2].pub
    /\ pubs[calls[c1].pub].event.productId = pubs[calls[c2].pub].event.productId
    /\ calls[c1].st = "pending"
    /\ calls[c2].st = "resolved"

\* C30: collaborator calls are started in publish order: when emit returns,
\* the attached handler has made the call of the event, so the calls of
\* events published earlier precede the calls of events published later.
C30_CallsInPublishOrder ==
  /\ \A p \in 1..Len(pubs) : SyncInvoked(p) => CallsOf(p) # {}
  /\ \A c1, c2 \in 1..Len(calls) : c1 < c2 => calls[c1].pub < calls[c2].pub

\* Two events were published while the handler was attached, and the call
\* of the first was made before the call of the second.
C30_Witness ==
  /\ Len(calls) >= 2
  /\ calls[1].pub = 1
  /\ calls[2].pub = 2
  /\ SyncInvoked(1)
  /\ SyncInvoked(2)

\* C31: whenever the static InventorySyncHandler.instance is set, that
\* instance has its handler subscribed for each of the three kinds, so that
\* the object getInstance() returns handles the events published; this
\* includes the states after destroy().
C31_StaticInstanceSubscribed ==
  instance # 0 =>
    \A k \in Kinds : SyncListener(instance) \in Range(listeners[k])

\* The collaborator calls for product x that resolved and add or remove the
\* record of x, in the order in which they completed.
Applied(x) ==
  SelectSeq(log, LAMBDA e : e.level = "log" /\ e.id = x /\ e.msg \in {"created", "deleted"})

\* The inventory holds a record for product x: the last call that completed
\* for x was a create.
InventoryHolds(x) ==
  LET a == Applied(x) IN Len(a) > 0 /\ a[Len(a)].msg = "created"

\* C32: when a Created event and then a Deleted event for the same product
\* have been published to the attached handler, both collaborator calls
\* have resolved and no call is in flight, the inventory holds no record
\* for the product.
C32_CreateThenDeleteLeavesNoRecord ==
  \A p, q \in 1..Len(pubs) :
    (/\ p < q
     /\ pubs[p].kind = "product.created"
     /\ pubs[q].kind = "product.deleted"
     /\ pubs[p].event.productId = pubs[q].event.productId
     /\ SyncInvoked(p)
     /\ SyncInvoked(q)
     /\ \A c \in CallsOf(p) \cup CallsOf(q) : calls[c].st = "resolved"
     /\ \A c \in 1..Len(calls) : calls[c].st # "pending")
      => ~InventoryHolds(pubs[p].event.productId)

\* No sync handler was subscribed for the kind when publish p was made.
PublishedUnattached(p) == \A l \in Range(pubs[p].snapshot) : l.tag # "sync"

\* C33: events are not queued or replayed: an event published while no sync
\* handler is subscribed has no collaborator call, neither when emit
\* returns nor in any later state, whatever handler is constructed
\* afterwards.
C33_NoReplay ==
  \A p \in 1..Len(pubs) : PublishedUnattached(p) => CallsOf(p) = {}

\* An event was published while no handler existed; a handler has been
\* constructed since and is subscribed, and the event has no call.
C33_Witness ==
  \E p \in 1..Len(pubs) :
    /\ PublishedUnattached(p)
    /\ pubs[p].inst = 0
    /\ instance # 0
    /\ OneListenerPerKind(listeners, instance)
    /\ CallsOf(p) = {}

\* C34: new InventorySyncHandler(svc) called while the static instance is
\* set throws and changes nothing: no call of it, with whatever
\* collaborator, leads to a state that differs in the subscriptions, the
\* static instance, the collaborator of an instance or anything else.
C34_SecondConstructionNoEffect ==
  instance # 0 =>
    \A svc \in Services : ~ENABLED (NewHandler(svc) /\ vars' # vars)

\* An instance with collaborator InventoryA exists and is subscribed, and
\* new InventorySyncHandler(InventoryB) is called: the call ends in the
\* same state.
C34_Witness ==
  /\ instance # 0
  /\ service[instance] = "InventoryA"
  /\ OneListenerPerKind(listeners, instance)
  /\ ENABLED (NewHandler("InventoryB") /\ UNCHANGED vars)

\* C35: getInstance(svc) called while the static instance is set returns
\* that instance and ignores svc: no call of it changes the static
\* instance, the collaborator of any instance, or the subscriptions.
C35_GetInstanceIgnoresArgument ==
  instance # 0 =>
    \A svc \in Services :
      ~ENABLED (/\ getInstance(svc)
                /\ <<instance, service, listeners>>' # <<instance, service, listeners>>)

\* An instance with collaborator InventoryA exists next to the listener of
\* another component, and getInstance(InventoryB) is called: the call
\* returns with the instance, its collaborator and the registry as before.
C35_Witness ==
  /\ instance # 0
  /\ service[instance] = "InventoryA"
  /\ \E k \in Kinds : Len(listeners[k]) = 2
  /\ ENABLED (/\ getInstance("InventoryB")
              /\ UNCHANGED <<instance, service, listeners>>)

\* The invocations of the sync handler that publish p started.
TasksOf(p) == {t \in 1..Len(tasks) : tasks[t].pub = p}

\* Invocation t of a handler has run to its end.
Finished(t) == tasks[t].st \in {"fulfilled", "rejected"}

\* C36: every invocation of a handler terminates: an event dispatched to
\* the attached handler starts one invocation, which makes at most one
\* collaborator call; when that call settles (or when no call is made) the
\* invocation finishes, and a finished invocation has no pending call.
C36_HandlersTerminate ==
  /\ [](\A p \in 1..Len(pubs) :
          SyncInvoked(p) =>
            /\ Cardinality(TasksOf(p)) = 1
            /\ Cardinality(CallsOf(p)) <= 1
            /\ \A t \in TasksOf(p) :
                 /\ tasks[t].call # 0 => tasks[t].call \in CallsOf(p)
                 /\ Finished(t) =>
                      \A c \in CallsOf(p) : calls[c].st # "pending")
  /\ \A t \in 1..MaxSyncEvents :
       (Len(tasks) >= t /\ tasks[t].st = "awaiting")
         ~> (Len(tasks) >= t /\ Finished(t))

\* An invocation waited for its collaborator call, the call was rejected,
\* and the invocation has finished.
C36_Witness ==
  \E t \in 1..Len(tasks) :
    /\ tasks[t].call # 0
    /\ calls[tasks[t].call].st = "rejected"
    /\ Finished(t)
====
